---- MODULE Spec2Model ----
(***************************************************************************)
(* Model of main.py: the StdinReader (a one-line lookahead wrapper around  *)
(* sys.stdin) and the lockfile walker read_lockfile that drives it.        *)
(*                                                                         *)
(* Lines are TLA+ strings; the four regular expressions of main.py are     *)
(* operators over the characters of a line.  sys.stdin is the sequence of  *)
(* the strings readline() will still return: every one ends in "\n",       *)
(* except possibly the last.                                               *)
(***************************************************************************)
EXTENDS Integers, Sequences, FiniteSets, TLC

VARIABLES
    stdin,          \* sys.stdin: the raw lines readline() has not returned yet
    buffer,         \* StdinReader.buffer: None or Some(line)
    current_line,   \* StdinReader.current_line
    stdout,         \* sys.stdout: the text written so far
    stderr,         \* sys.stderr: the text written so far
    verbose,        \* the global verbose
    pc,             \* the walker's position: the function whose loop runs next
    name,           \* parse_dependency_details: local name
    sdist,          \* parse_dependency_details: local sdist, None or <<url, hash>>
    exc,            \* the exception that ended the run, if any
    input,          \* history: the raw lines sys.stdin held at construction
    manifest,       \* history: how the input was put together
    consumed,       \* history: the number of next() calls that returned
    returned,       \* history: the lines next() returned, in order
    last,           \* history: the client's last call on the reader and its result
    peeked,         \* history: what peek() returned since the last next(), if called
    reads,          \* history: the number of readline() calls made on sys.stdin
    first_run,      \* history: how an earlier run on the same input ended, if one was made
    steps           \* history: the loop iterations and calls the walker has made

vars == <<stdin, buffer, current_line, stdout, stderr, verbose, pc, name, sdist, exc,
          input, manifest, consumed, returned, last, peeked, reads, first_run, steps>>

\* ------------------------------------------------------------------ bounds

\* The longest input made of arbitrary lines of LinePool.
MaxLines == 3

\* The largest number of package records in an input built from RecordPool.
MaxRecords == 3

\* ------------------------------------------------------------------ text

None == <<>>
Some(v) == <<v>>

\* The slice s[i..j], cut to the text as Python cuts s[i-1:j].
Sub(s, i, j) ==
    LET hi == IF j > Len(s) THEN Len(s) ELSE j
    IN  IF i < 1 \/ i > hi THEN "" ELSE SubSeq(s, i, hi)

Ch(s, i) == Sub(s, i, i)

\* s[i..] starts with the text p.
StartsWithAt(s, i, p) == Sub(s, i, i + Len(p) - 1) = p

Lower == {"a", "b", "c", "d", "e", "f", "g", "h", "i", "j", "k", "l", "m",
          "n", "o", "p", "q", "r", "s", "t", "u", "v", "w", "x", "y", "z"}

\* The characters \s matches in a str pattern, as far as a line can hold them.
Space == {" ", "\t", "\r", "\n", "\f"}

\* The first index >= i of s that holds the character c; Len(s) + 1 if none.
RECURSIVE Find(_, _, _)
Find(s, i, c) ==
    IF i > Len(s) THEN Len(s) + 1
    ELSE IF Ch(s, i) = c THEN i
    ELSE Find(s, i + 1, c)

\* str.rstrip("\n"): every trailing newline is removed.
RECURSIVE rstrip(_)
rstrip(s) ==
    IF Len(s) > 0 /\ Ch(s, Len(s)) = "\n"
    THEN rstrip(Sub(s, 1, Len(s) - 1))
    ELSE s

\* A replace that stops after the first hyphen.
replace_first_only(s) ==
    LET i == Find(s, 1, "-")
    IN  IF i > Len(s) THEN s ELSE Sub(s, 1, i - 1) \o "_" \o Sub(s, i + 1, Len(s))

\* str.replace("-", "_")
RECURSIVE replace(_)
replace(s) ==
    IF s = "" THEN ""
    ELSE (IF Ch(s, 1) = "-" THEN "_" ELSE Ch(s, 1)) \o replace(Sub(s, 2, Len(s)))

\* ------------------------------------------------------------------ patterns

\* property = re.compile(r"^[a-z][a-z-]* = (.*)"), used with match().
property_match(s) ==
    /\ Len(s) >= 1
    /\ Ch(s, 1) \in Lower
    /\ \E k \in 1..Len(s) :
        /\ \A i \in 1..k : Ch(s, i) \in Lower \cup {"-"}
        /\ StartsWithAt(s, k + 1, " = ")

\* whitespace = re.compile(r"^\s*$"), used with match().
whitespace_match(s) == \A i \in 1..Len(s) : Ch(s, i) \in Space

\* name_property = re.compile(r'^name = "(.*)"$'): None, or Some(group 1).
name_property_match(s) ==
    IF /\ StartsWithAt(s, 1, "name = \"")
       /\ Len(s) >= 9
       /\ Ch(s, Len(s)) = "\""
    THEN Some(Sub(s, 9, Len(s) - 1))
    ELSE None

\* sdist_property = re.compile(
\*     r'^sdist = { url = "([^"]*)", hash = "sha256:([^"]*)", .*}'):
\* None, or <<group 1, group 2>>.
sdist_property_match(s) ==
    LET p1 == "sdist = { url = \""
        p2 == "\", hash = \"sha256:"
        p3 == "\", "
        q1 == Find(s, Len(p1) + 1, "\"")
        q2 == Find(s, q1 + Len(p2), "\"")
    IN  IF /\ StartsWithAt(s, 1, p1)
           /\ StartsWithAt(s, q1, p2)
           /\ StartsWithAt(s, q2, p3)
           /\ Find(s, q2 + Len(p3), "}") <= Len(s)
        THEN <<Sub(s, Len(p1) + 1, q1 - 1), Sub(s, q1 + Len(p2), q2 - 1)>>
        ELSE None

\* ------------------------------------------------------------------ StdinReader

\* The reader object together with the globals its methods and debug()
\* use: the three streams and verbose.
Self ==
    [stdin |-> stdin, buffer |-> buffer, current_line |-> current_line,
     stdout |-> stdout, stderr |-> stderr, verbose |-> verbose, reads |-> reads]

\* The ladybug of debug's prefix, U+1F41E, as the text of a string here.
Ladybug == "<U+1F41E>"

\* A debug that forgets file=sys.stderr.
debug_to_stdout(self, message) ==
    IF self.verbose
    THEN [self EXCEPT !.stdout = @ \o " " \o Ladybug \o " " \o message \o "\n"]
    ELSE self

debug(self, message) ==
    IF self.verbose
    THEN [self EXCEPT !.stderr = @ \o " " \o Ladybug \o " " \o message \o "\n"]
    ELSE self

\* sys.stdin.readline(): "" at end of file.
readline(in) == IF in = <<>> THEN "" ELSE Head(in)

\* An update_buffer that strips the line before it tests for end of file.
update_buffer_strip_first(self) ==
    LET buf == rstrip(readline(self.stdin))
    IN  IF buf = ""
        THEN [self EXCEPT !.buffer = None, !.reads = @ + 1]
        ELSE [self EXCEPT !.stdin = Tail(@),
                          !.reads = @ + 1,
                          !.buffer = Some(buf),
                          !.current_line = @ + 1]

update_buffer(self) ==
    LET buf == readline(self.stdin)
    IN  IF buf = ""
        THEN debug([self EXCEPT !.buffer = None, !.reads = @ + 1],
                   "EOL reached after " \o ToString(self.current_line) \o " lines.")
        ELSE debug([self EXCEPT !.stdin = Tail(@),
                                !.reads = @ + 1,
                                !.buffer = Some(rstrip(buf)),
                                !.current_line = @ + 1],
                   ToString(self.current_line + 1) \o ": " \o rstrip(buf))

\* The process before main() has constructed the reader: nothing read or
\* written, verbose as the command line sets it.
Process(in, v) ==
    [stdin |-> in, buffer |-> None, current_line |-> 0,
     stdout |-> "", stderr |-> "", verbose |-> v, reads |-> 0]

\* StdinReader(): the state after __init__.
StdinReader(process) ==
    update_buffer([process EXCEPT !.current_line = 0])

has_next(self) == self.buffer # None

EOFError(msg) == [type |-> "EOFError", message |-> msg]
ValueError(msg) == [type |-> "ValueError", message |-> msg]
NoException == [type |-> "", message |-> ""]

\* A call's outcome: the value returned or the exception raised, and the
\* reader afterwards.
Return(v, self) == [raised |-> NoException, ret |-> v, self |-> self]
Raise(e, self) == [raised |-> e, ret |-> "", self |-> self]

\* A next that tries the stream again before it gives up.
next_rereads_at_eof(self) ==
    IF self.buffer = None
    THEN Raise(EOFError("End of input reached"), update_buffer(self))
    ELSE Return(self.buffer[1], update_buffer(self))

next(self) ==
    IF ~has_next(self)
    THEN Raise(EOFError("End of input reached"), self)
    ELSE Return(self.buffer[1], update_buffer(self))

\* A peek that reads on as next does.
peek_consuming(self) ==
    IF self.buffer = None
    THEN Raise(EOFError("Cannot peek past EOF."), self)
    ELSE Return(self.buffer[1], update_buffer(self))

peek(self) ==
    IF ~has_next(self)
    THEN Raise(EOFError("Cannot peek past EOF."), self)
    ELSE Return(self.buffer[1], self)

line(self) == self.current_line

\* ------------------------------------------------------------------ inputs

Header == "[[package]]"

NameLine(v) == "name = \"" \o v \o "\""

SdistLine(url, hash) ==
    "sdist = { url = \"" \o url \o "\", hash = \"sha256:" \o hash \o "\", size = 1 }"

\* An sdist property that lacks the sha256 hash form.
SdistNoHash == "sdist = { url = \"u0\" }"

\* The lines arbitrary inputs are made of: a header, a blank and a
\* whitespace line, properties (among them a name and two sdist forms) and
\* a line that is none of these.
LinePool ==
    {Header, "", " ", "version = \"1\"", NameLine("a-b"),
     SdistLine("u1", "h1"), SdistNoHash, "]"}

\* A package record: the header, props, the name line (if name # None),
\* mid, the sdist line (if sdist # None), tail.
Record(props, nm, mid, sd, tail) ==
    [props |-> props, name |-> nm, mid |-> mid, sdist |-> sd, tail |-> tail]

RecordPool ==
    { \* records with a name and a descriptor
      Record(<<>>, Some("a-b-c"), <<>>, <<"u1", "h1">>, <<>>),
      Record(<<"version = \"1\"">>, Some("d"), <<"source = { registry = \"r\" }", "]">>,
             <<"u2", "h2">>, <<"wheels = [", "]", "">>),
      Record(<<SdistLine("u3", "h3")>>, Some("e-f"), <<SdistNoHash>>,
             <<"u4", "h4">>, <<SdistLine("u5", "h5")>>),
      \* records with a name and no descriptor
      Record(<<>>, Some("n-a"), <<>>, None, <<>>),
      Record(<<"version = \"1\"">>, Some("n-b"), <<SdistNoHash, "">>, None, <<>>),
      Record(<<SdistLine("u6", "h6")>>, Some("n-c"), <<>>, None, <<>>),
      \* records without a name: mid is what stands where the name should
      Record(<<>>, None, <<>>, None, <<>>),
      Record(<<"version = \"1\"">>, None, <<"]">>, None, <<>>),
      Record(<<>>, None, <<"">>, None, <<NameLine("n-d")>>) }

Preambles == {<<>>, <<"version = 1", "", "requires-python = \">=3.12\"", " ">>}

RecordLines(r) ==
    <<Header>> \o r.props
        \o (IF r.name = None THEN <<>> ELSE <<NameLine(r.name[1])>>)
        \o r.mid
        \o (IF r.sdist = None THEN <<>> ELSE <<SdistLine(r.sdist[1], r.sdist[2])>>)
        \o r.tail

RECURSIVE Flatten(_)
Flatten(rs) == IF rs = <<>> THEN <<>> ELSE RecordLines(Head(rs)) \o Flatten(Tail(rs))

SeqsUpTo(S, n) == UNION {[1..k -> S] : k \in 0..n}

\* Inputs of arbitrary lines, and inputs built as a preamble and records.
ArbitraryManifests ==
    {[shaped |-> FALSE, preamble |-> <<>>, records |-> <<>>, lines |-> ls] :
        ls \in SeqsUpTo(LinePool, MaxLines)}

ShapedManifests ==
    {[shaped |-> TRUE, preamble |-> p, records |-> rs, lines |-> p \o Flatten(rs)] :
        p \in Preambles, rs \in SeqsUpTo(RecordPool, MaxRecords)}

\* The input the repository's test feeds to main().
test_input == <<"Hello, world!", "Bumbum">>

TestManifests ==
    {[shaped |-> FALSE, preamble |-> <<>>, records |-> <<>>, lines |-> test_input]}

\* What readline() returns for these lines; the last line of a file may
\* lack its terminator, unless it is empty (inputs of arbitrary lines come
\* both ways, inputs built of records end in a terminator).
Raw(ls, eofnl) ==
    [i \in 1..Len(ls) |-> IF i = Len(ls) /\ ~eofnl THEN ls[i] ELSE ls[i] \o "\n"]

NoCall == [op |-> "", ret |-> "", raised |-> NoException]

\* The state after StdinReader() on the given input with verbose = v; the
\* walker has entered read_lockfile, a client has not.
Started(in, v, start) ==
    IF start = "client"
    THEN StdinReader(Process(in, v))
    ELSE debug(StdinReader(Process(in, v)), "Parsing lockfile from stdin.")

InitWith(m, eofnl, start, v) ==
    LET r == Started(Raw(m.lines, eofnl), v, start)
    IN  /\ eofnl \/ (~m.shaped /\ m.lines # <<>> /\ m.lines[Len(m.lines)] # "")
        /\ input = Raw(m.lines, eofnl)
        /\ manifest = [shaped |-> m.shaped, preamble |-> m.preamble, records |-> m.records]
        /\ stdin = r.stdin
        /\ buffer = r.buffer
        /\ current_line = r.current_line
        /\ stdout = r.stdout
        /\ stderr = r.stderr
        /\ verbose = r.verbose
        /\ reads = r.reads
        /\ first_run = None
        /\ steps = 0
        /\ pc = start
        /\ name = ""
        /\ sdist = None
        /\ exc = NoException
        /\ consumed = 0
        /\ returned = <<>>
        /\ last = NoCall
        /\ peeked = None

\* main() without --verbose: read_lockfile(StdinReader()) has been entered.
Init ==
    \E m \in ArbitraryManifests \cup ShapedManifests \cup TestManifests,
       eofnl \in BOOLEAN :
        InitWith(m, eofnl, "skip_initial_fields", FALSE)

\* ------------------------------------------------------------------ walker

\* The reader and the globals after a call, and the history of next().
SetReader(self) ==
    /\ stdin' = self.stdin
    /\ buffer' = self.buffer
    /\ current_line' = self.current_line
    /\ stdout' = self.stdout
    /\ stderr' = self.stderr
    /\ verbose' = self.verbose
    /\ reads' = self.reads

Called(c, isNext) ==
    /\ SetReader(c.self)
    /\ IF isNext /\ c.raised = NoException
       THEN consumed' = consumed + 1 /\ returned' = Append(returned, c.ret)
       ELSE UNCHANGED <<consumed, returned>>

\* A call's outcome with debug(message) called after it.
Then(c, message) == [c EXCEPT !.self = debug(c.self, message)]

\* No call of next() was made; self is what the debug and print calls left.
Traced(self) == SetReader(self) /\ UNCHANGED <<consumed, returned>>

NoCallMade == Traced(Self)

Fail(e) == pc' = "failed" /\ exc' = e

\* print(s): s and a newline go to sys.stdout.
print(self, s) == [self EXCEPT !.stdout = @ \o s \o "\n"]

\* What an f-string makes of the bound method reader.line.
BoundMethodRepr == "<bound method StdinReader.line of <__main__.StdinReader object>>"

\* A skip_initial_fields that takes blank lines for the end of the preamble.
skip_initial_fields_no_blank ==
    /\ pc = "skip_initial_fields"
    /\ UNCHANGED <<name, sdist, exc, input, manifest, last, peeked, first_run>>
    /\ steps' = steps + 1
    /\ IF ~has_next(Self)
       THEN pc' = "read_lockfile" /\ NoCallMade
       ELSE IF property_match(peek(Self).ret)
       THEN pc' = pc /\ Called(next(Self), TRUE)
       ELSE pc' = "read_lockfile" /\ NoCallMade

\* A skip_initial_fields that consumes the line it stops at.
skip_initial_fields_consumes_stop ==
    /\ pc = "skip_initial_fields"
    /\ UNCHANGED <<name, sdist, exc, input, manifest, last, peeked, first_run>>
    /\ steps' = steps + 1
    /\ IF ~has_next(Self)
       THEN pc' = "read_lockfile" /\ NoCallMade
       ELSE /\ Called(next(Self), TRUE)
            /\ pc' = IF whitespace_match(peek(Self).ret) \/ property_match(peek(Self).ret)
                     THEN pc ELSE "read_lockfile"

\* One iteration of the loop of skip_initial_fields.
skip_initial_fields ==
    /\ pc = "skip_initial_fields"
    /\ UNCHANGED <<name, sdist, exc, input, manifest, last, peeked, first_run>>
    /\ steps' = steps + 1
    /\ IF ~has_next(Self)
       THEN /\ pc' = "read_lockfile"
            /\ Traced(debug(Self, "EOF reached while skipping initial fields."))
       ELSE IF whitespace_match(peek(Self).ret) \/ property_match(peek(Self).ret)
       THEN /\ pc' = pc
            /\ Called(next(debug(Self, "Skipping initial line '" \o peek(Self).ret \o "'")),
                      TRUE)
       ELSE /\ pc' = "read_lockfile"
            /\ Traced(debug(Self, "Line '" \o peek(Self).ret
                                  \o "' not an initial field, stopping."))

\* A read_lockfile that calls parse_dependency without the loop test.
read_lockfile_no_guard ==
    /\ pc = "read_lockfile"
    /\ pc' = "parse_dependency"
    /\ NoCallMade
    /\ UNCHANGED <<name, sdist, exc, input, manifest, last, peeked, first_run>>
    /\ steps' = steps + 1

\* The loop test of read_lockfile.
read_lockfile ==
    /\ pc = "read_lockfile"
    /\ pc' = IF has_next(Self) THEN "parse_dependency" ELSE "done"
    /\ NoCallMade
    /\ UNCHANGED <<name, sdist, exc, input, manifest, last, peeked, first_run>>
    /\ steps' = steps + 1

parse_dependency ==
    /\ pc = "parse_dependency"
    /\ LET c == next(Self)
           header == c.ret
       IN  IF c.raised # NoException
           THEN Called(c, TRUE) /\ Fail(c.raised)
           ELSE IF ~(header = Header)
           THEN /\ Called(c, TRUE)
                /\ Fail(ValueError("Expected package header at line "
                        \o ToString(line(c.self)) \o ", found '" \o header \o "'."))
           ELSE /\ Called(Then(c, "Parsing dependency details."), TRUE)
                /\ pc' = "parse_name"
                /\ exc' = exc
    /\ UNCHANGED <<name, sdist, input, manifest, last, peeked, first_run>>
    /\ steps' = steps + 1

\* A parse_name that skips every line that is not the name line.
parse_name_skips_any_line ==
    /\ pc = "parse_name"
    /\ UNCHANGED <<sdist, input, manifest, last, peeked, first_run>>
    /\ steps' = steps + 1
    /\ IF ~has_next(Self)
       THEN /\ Fail(ValueError("Unexpected while parsing name."))
            /\ NoCallMade
            /\ name' = name
       ELSE LET c == next(Self)
                match == name_property_match(c.ret)
            IN  /\ Called(c, TRUE)
                /\ IF match = None
                   THEN UNCHANGED <<pc, exc, name>>
                   ELSE /\ name' = replace(match[1])
                        /\ pc' = "parse_sdist"
                        /\ exc' = exc

\* One iteration of the loop of parse_name.
parse_name ==
    /\ pc = "parse_name"
    /\ UNCHANGED <<sdist, input, manifest, last, peeked, first_run>>
    /\ steps' = steps + 1
    /\ IF ~has_next(Self)
       THEN /\ Fail(ValueError("Unexpected while parsing name."))
            /\ NoCallMade
            /\ name' = name
       ELSE LET c == next(Self)
                match == name_property_match(c.ret)
            IN  IF ~property_match(c.ret)
                THEN /\ Called(c, TRUE)
                     /\ Fail(ValueError("Expected property, found '" \o c.ret
                                \o "' at line " \o BoundMethodRepr \o "."))
                     /\ name' = name
                ELSE IF match = None
                THEN Called(c, TRUE) /\ UNCHANGED <<pc, exc, name>>
                ELSE /\ Called(Then(c, "Parsing sdist entry."), TRUE)
                     /\ name' = replace(match[1])
                     /\ pc' = "parse_sdist"
                     /\ exc' = exc

\* A parse_sdist that does not stop at the header of the next record.
parse_sdist_no_header_check ==
    /\ pc = "parse_sdist"
    /\ UNCHANGED <<name, input, manifest, last, peeked, first_run>>
    /\ steps' = steps + 1
    /\ IF ~has_next(Self)
       THEN /\ Fail(ValueError("Unexpected EOF while parsing sdist."))
            /\ NoCallMade
            /\ sdist' = sdist
       ELSE LET c == next(Self)
                match == sdist_property_match(c.ret)
            IN  /\ Called(c, TRUE)
                /\ exc' = exc
                /\ IF match = None
                   THEN UNCHANGED <<pc, sdist>>
                   ELSE sdist' = match /\ pc' = "parse_dependency_details"

\* A parse_sdist that consumes the header of the next record when it stops there.
parse_sdist_consumes_header ==
    /\ pc = "parse_sdist"
    /\ UNCHANGED <<name, input, manifest, last, peeked, first_run>>
    /\ steps' = steps + 1
    /\ IF ~has_next(Self)
       THEN /\ Fail(ValueError("Unexpected EOF while parsing sdist."))
            /\ NoCallMade
            /\ sdist' = sdist
       ELSE LET c == next(Self)
                match == sdist_property_match(c.ret)
            IN  /\ Called(c, TRUE)
                /\ exc' = exc
                /\ IF c.ret = Header
                   THEN sdist' = None /\ pc' = "parse_dependency_details"
                   ELSE IF match = None
                   THEN UNCHANGED <<pc, sdist>>
                   ELSE sdist' = match /\ pc' = "parse_dependency_details"

\* A parse_sdist that returns None when the input ends.
parse_sdist_eof_returns_none ==
    /\ pc = "parse_sdist"
    /\ UNCHANGED <<name, input, manifest, last, peeked, first_run>>
    /\ steps' = steps + 1
    /\ IF ~has_next(Self) \/ peek(Self).ret = Header
       THEN /\ sdist' = None
            /\ pc' = "parse_dependency_details"
            /\ exc' = exc
            /\ NoCallMade
       ELSE LET c == next(Self)
                match == sdist_property_match(c.ret)
            IN  /\ Called(c, TRUE)
                /\ exc' = exc
                /\ IF match = None
                   THEN UNCHANGED <<pc, sdist>>
                   ELSE sdist' = match /\ pc' = "parse_dependency_details"

\* The first sdist-with-hash line among the lines consumed since the last
\* header: None, or its url and hash.
LookBack(ret) ==
    LET h == CHOOSE i \in 1..Len(ret) :
                ret[i] = Header /\ \A j \in (i + 1)..Len(ret) : ret[j] # Header
        ms == {i \in h..Len(ret) : sdist_property_match(ret[i]) # None}
    IN  IF ms = {} THEN None
        ELSE sdist_property_match(ret[CHOOSE i \in ms : \A j \in ms : i <= j])

\* A parse_sdist that, when it stops at a header without a match, takes
\* an sdist line the record had before its name.
parse_sdist_looks_back ==
    /\ pc = "parse_sdist"
    /\ UNCHANGED <<name, input, manifest, last, peeked, first_run>>
    /\ steps' = steps + 1
    /\ IF ~has_next(Self)
       THEN /\ Fail(ValueError("Unexpected EOF while parsing sdist."))
            /\ NoCallMade
            /\ sdist' = sdist
       ELSE IF peek(Self).ret = Header
       THEN /\ sdist' = LookBack(returned)
            /\ pc' = "parse_dependency_details"
            /\ exc' = exc
            /\ NoCallMade
       ELSE LET c == next(Self)
                match == sdist_property_match(c.ret)
            IN  /\ Called(c, TRUE)
                /\ exc' = exc
                /\ IF match = None
                   THEN UNCHANGED <<pc, sdist>>
                   ELSE sdist' = match /\ pc' = "parse_dependency_details"

\* One iteration of the loop of parse_sdist; its result goes to sdist.
parse_sdist ==
    /\ pc = "parse_sdist"
    /\ UNCHANGED <<name, input, manifest, last, peeked, first_run>>
    /\ steps' = steps + 1
    /\ IF ~has_next(Self)
       THEN /\ Fail(ValueError("Unexpected EOF while parsing sdist."))
            /\ NoCallMade
            /\ sdist' = sdist
       ELSE IF peek(Self).ret = Header
       THEN /\ sdist' = None
            /\ pc' = "parse_dependency_details"
            /\ exc' = exc
            /\ Traced(debug(Self, "New package found, aborting processing of current entry."))
       ELSE LET c == next(Self)
                match == sdist_property_match(c.ret)
            IN  /\ Called(c, TRUE)
                /\ exc' = exc
                /\ IF match = None
                   THEN UNCHANGED <<pc, sdist>>
                   ELSE sdist' = match /\ pc' = "parse_dependency_details"

\* A parse_dependency_details that prints the block a second time.
parse_dependency_details_prints_twice ==
    /\ pc = "parse_dependency_details"
    /\ IF sdist = None
       THEN pc' = "read_lockfile" /\ NoCallMade
       ELSE LET block == "  resource \"" \o name \o "\" do\n"
                            \o "    url \"" \o sdist[1] \o "\"\n"
                            \o "    sha256 \"" \o sdist[2] \o "\"\n"
                            \o "  end\n"
            IN  /\ Traced(debug(print(print(Self, block), block),
                                "Skipping rest of dependency fields."))
                /\ pc' = "skip_rest"
    /\ UNCHANGED <<name, sdist, exc, input, manifest, last, peeked, first_run>>
    /\ steps' = steps + 1

\* parse_dependency_details once parse_sdist has returned: the block.
parse_dependency_details ==
    /\ pc = "parse_dependency_details"
    /\ IF sdist = None
       THEN pc' = "read_lockfile" /\ NoCallMade
       ELSE /\ Traced(debug(print(Self, "  resource \"" \o name \o "\" do\n"
                                  \o "    url \"" \o sdist[1] \o "\"\n"
                                  \o "    sha256 \"" \o sdist[2] \o "\"\n"
                                  \o "  end\n"),
                         "Skipping rest of dependency fields."))
            /\ pc' = "skip_rest"
    /\ UNCHANGED <<name, sdist, exc, input, manifest, last, peeked, first_run>>
    /\ steps' = steps + 1

\* A closing loop that skips one line of the rest and returns.
skip_rest_one_line ==
    /\ pc = "skip_rest"
    /\ pc' = "read_lockfile"
    /\ IF has_next(Self) /\ ~(peek(Self).ret = Header)
       THEN Called(next(debug(Self, "Skipping line '" \o peek(Self).ret \o "'.")), TRUE)
       ELSE NoCallMade
    /\ UNCHANGED <<name, sdist, exc, input, manifest, last, peeked, first_run>>
    /\ steps' = steps + 1

\* A closing loop that looks at the waiting line and leaves it there.
skip_rest_peeks ==
    /\ pc = "skip_rest"
    /\ IF has_next(Self) /\ ~(peek(Self).ret = Header)
       THEN /\ pc' = pc
            /\ Called(peek(debug(Self, "Skipping line '" \o peek(Self).ret \o "'.")), FALSE)
       ELSE pc' = "read_lockfile" /\ NoCallMade
    /\ UNCHANGED <<name, sdist, exc, input, manifest, last, peeked, first_run>>
    /\ steps' = steps + 1

\* One iteration of the closing loop of parse_dependency_details.
skip_rest ==
    /\ pc = "skip_rest"
    /\ IF has_next(Self) /\ ~(peek(Self).ret = Header)
       THEN /\ pc' = pc
            /\ Called(next(debug(Self, "Skipping line '" \o peek(Self).ret \o "'.")), TRUE)
       ELSE pc' = "read_lockfile" /\ NoCallMade
    /\ UNCHANGED <<name, sdist, exc, input, manifest, last, peeked, first_run>>
    /\ steps' = steps + 1

Next ==
    \/ skip_initial_fields
    \/ read_lockfile
    \/ parse_dependency
    \/ parse_name
    \/ parse_sdist
    \/ parse_dependency_details
    \/ skip_rest

Spec == Init /\ [][Next]_vars

\* ------------------------------------------------------------------ two runs on one input

\* main() with --verbose: read_lockfile(StdinReader()) has been entered.
VerboseInit ==
    \E m \in ArbitraryManifests \cup ShapedManifests \cup TestManifests,
       eofnl \in BOOLEAN :
        InitWith(m, eofnl, "skip_initial_fields", TRUE)

\* How a run ended: the lines it consumed, the two output streams, and
\* the return or the exception.
Outcome ==
    [returned |-> returned, stdout |-> stdout, stderr |-> stderr,
     pc |-> pc, exc |-> exc]

\* The run with --verbose has ended; main() is run without --verbose on
\* the same standard input, in a fresh process.
rerun ==
    /\ pc \in {"done", "failed"}
    /\ verbose
    /\ first_run = None
    /\ first_run' = Some(Outcome)
    /\ SetReader(Started(input, FALSE, "skip_initial_fields"))
    /\ pc' = "skip_initial_fields"
    /\ name' = ""
    /\ sdist' = None
    /\ exc' = NoException
    /\ consumed' = 0
    /\ returned' = <<>>
    /\ steps' = 0
    /\ UNCHANGED <<input, manifest, last, peeked>>

TwoRunsNext ==
    \/ skip_initial_fields
    \/ read_lockfile
    \/ parse_dependency
    \/ parse_name
    \/ parse_sdist
    \/ parse_dependency_details
    \/ skip_rest
    \/ rerun

TwoRunsSpec == VerboseInit /\ [][TwoRunsNext]_vars

\* ------------------------------------------------------------------ a client of StdinReader

\* A caller that makes any sequence of calls on a fresh reader and
\* survives the EOFError a call may raise.
ReaderInit ==
    \E m \in ArbitraryManifests, eofnl \in BOOLEAN :
        InitWith(m, eofnl, "client", FALSE)

WalkerIdle == UNCHANGED <<pc, name, sdist, exc, input, manifest, first_run, steps>>

client_has_next ==
    /\ pc = "client"
    /\ last' = [op |-> "has_next", ret |-> has_next(Self), raised |-> NoException]
    /\ NoCallMade
    /\ UNCHANGED peeked
    /\ WalkerIdle

client_peek ==
    /\ pc = "client"
    /\ LET c == peek(Self)
       IN  /\ Called(c, FALSE)
           /\ last' = [op |-> "peek", ret |-> c.ret, raised |-> c.raised]
           /\ peeked' = IF c.raised = NoException THEN Some(c.ret) ELSE peeked
    /\ WalkerIdle

client_next ==
    /\ pc = "client"
    /\ LET c == next(Self)
       IN  /\ Called(c, TRUE)
           /\ last' = [op |-> "next", ret |-> c.ret, raised |-> c.raised]
           /\ peeked' = IF c.raised = NoException THEN None ELSE peeked
    /\ WalkerIdle

client_line ==
    /\ pc = "client"
    /\ last' = [op |-> "line", ret |-> line(Self), raised |-> NoException]
    /\ NoCallMade
    /\ UNCHANGED peeked
    /\ WalkerIdle

ReaderNext ==
    \/ client_has_next
    \/ client_peek
    \/ client_next
    \/ client_line

ReaderSpec == ReaderInit /\ [][ReaderNext]_vars

\* ------------------------------------------------------------------ what the properties speak of

\* A raw line without its line terminator.
Chomp(raw) ==
    IF Len(raw) > 0 /\ Ch(raw, Len(raw)) = "\n" THEN Sub(raw, 1, Len(raw) - 1) ELSE raw

\* The text s holds the text sub.
Contains(s, sub) == \E i \in 1..Len(s) : StartsWithAt(s, i, sub)

\* v with every hyphen made an underscore.
RECURSIVE Underscored(_)
Underscored(v) ==
    IF v = "" THEN ""
    ELSE Underscored(Sub(v, 1, Len(v) - 1))
            \o (IF Ch(v, Len(v)) = "-" THEN "_" ELSE Ch(v, Len(v)))

\* The resource block for a name, a url and a hash, and the blank line after it.
ResourceBlock(nm, url, hex) ==
    "  resource \"" \o nm \o "\" do\n"
        \o "    url \"" \o url \o "\"\n"
        \o "    sha256 \"" \o hex \o "\"\n"
        \o "  end\n"
        \o "\n"

Named(r) == r.name # None
Full(r) == r.name # None /\ r.sdist # None
NoSdist(r) == r.name # None /\ r.sdist = None

\* The blocks of the records that have a name and a descriptor, in order.
RECURSIVE ExpectedOutput(_)
ExpectedOutput(rs) ==
    IF rs = <<>> THEN ""
    ELSE (IF Full(Head(rs))
          THEN ResourceBlock(Underscored(Head(rs).name[1]),
                             Head(rs).sdist[1], Head(rs).sdist[2])
          ELSE "")
         \o ExpectedOutput(Tail(rs))

Records == manifest.records
NRecords == Len(manifest.records)

PreambleShaped(l) == whitespace_match(l) \/ property_match(l)

\* The length of the longest leading run of blank or property lines.
RECURSIVE LeadingRun(_)
LeadingRun(in) ==
    IF in # <<>> /\ PreambleShaped(Chomp(Head(in)))
    THEN 1 + LeadingRun(Tail(in))
    ELSE 0

NoHeaderLine(in) == \A i \in 1..Len(in) : Chomp(in[i]) # Header

\* ------------------------------------------------------------------ C1

\* C1: on an input made of a preamble and records that each have a name
\* line and, later, an sdist-with-hash line, read_lockfile raises nothing,
\* and when it has returned standard output is exactly the records' blocks
\* in order, each with the name's hyphens made underscores and the url and
\* hash as they stand in the record.
C1_WellFormedRecordsEmitAllBlocks ==
    (manifest.shaped /\ \A i \in 1..NRecords : Full(Records[i]))
        => /\ pc # "failed"
           /\ exc = NoException
           /\ pc = "done" => stdout = ExpectedOutput(Records)

\* Two different records after a preamble, both emitted.
C1_Witness ==
    /\ pc = "done"
    /\ manifest.shaped
    /\ manifest.preamble # <<>>
    /\ NRecords = 2
    /\ Full(Records[1]) /\ Full(Records[2])
    /\ Records[1] # Records[2]
    /\ Contains(Records[1].name[1], "-")
    /\ stdout = ExpectedOutput(Records)

\* ------------------------------------------------------------------ C2

C3_NoSdistNeverFails ==
    (/\ manifest.shaped
     /\ \A i \in 1..NRecords : Named(Records[i])
     /\ \E i \in 1..NRecords : NoSdist(Records[i]))
        => pc # "failed"

\* C3, amended: a record with a name and no sdist-with-hash line never
\* emits a block; it raises nothing when another record follows it, and
\* when it is the last record the run fails with the ValueError for an
\* input that ends during the sdist scan.
C3_NoSdistFailsOnlyAtEnd ==
    (/\ manifest.shaped
     /\ \A i \in 1..NRecords : Named(Records[i])
     /\ \E i \in 1..NRecords : NoSdist(Records[i]))
        => /\ \A i \in 1..NRecords : NoSdist(Records[i]) =>
                ~Contains(stdout, "resource \"" \o Underscored(Records[i].name[1]) \o "\"")
           /\ pc = "failed" =>
                /\ NoSdist(Records[NRecords])
                /\ exc = ValueError("Unexpected EOF while parsing sdist.")
           /\ pc = "done" => Full(Records[NRecords])

\* A record with a descriptor, then a last record without one: the block
\* of the first is out and the run has failed.
C3_Witness ==
    /\ manifest.shaped
    /\ NRecords >= 2
    /\ \A i \in 1..NRecords : Named(Records[i])
    /\ Full(Records[1])
    /\ NoSdist(Records[NRecords])
    /\ pc = "failed"
    /\ stdout = ExpectedOutput(Records)
    /\ stdout # ""

\* ------------------------------------------------------------------ C4

\* C4: when a record with a name and no sdist-with-hash line is followed
\* by further records, the run ends with exactly the blocks of the records
\* that have a descriptor, in order, as if the record were absent, and the
\* record itself makes nothing fail.
C4_NoSdistRecordIsSkipped ==
    (/\ manifest.shaped
     /\ \A i \in 1..NRecords : Named(Records[i])
     /\ \E i \in 1..(NRecords - 1) : NoSdist(Records[i]))
        => /\ pc \in {"done", "failed"} =>
                stdout = ExpectedOutput(SelectSeq(Records, Full))
           /\ Full(Records[NRecords]) => pc # "failed"

\* A record without a descriptor between two records with one: the run
\* returned with the blocks of the first and the third.
C4_Witness ==
    /\ manifest.shaped
    /\ NRecords = 3
    /\ Full(Records[1])
    /\ NoSdist(Records[2])
    /\ Records[2].mid # <<>>
    /\ Full(Records[3])
    /\ pc = "done"
    /\ stdout = ExpectedOutput(<<Records[1], Records[3]>>)

\* ------------------------------------------------------------------ C5

\* The index of the first record without a name; NRecords + 1 if none.
FirstUnnamed ==
    IF \A i \in 1..NRecords : Named(Records[i]) THEN NRecords + 1
    ELSE CHOOSE j \in 1..NRecords :
            ~Named(Records[j]) /\ \A i \in 1..(j - 1) : Named(Records[i])

\* C5: when parse_name meets end of input or a line that is no property
\* line before it has found a name line, the run fails there with a
\* ValueError and writes nothing more; on an input built of records, the
\* run never returns normally once a record lacks its name, and at the
\* failure standard output is exactly the blocks of the records before the
\* first such record.
C5_MissingNameFails ==
    /\ [][(pc = "parse_name" /\ (~has_next(Self) \/ ~property_match(buffer[1])))
            => /\ pc' = "failed"
               /\ exc'.type = "ValueError"
               /\ stdout' = stdout]_vars
    /\ []((manifest.shaped /\ FirstUnnamed <= NRecords)
            => /\ pc # "done"
               /\ pc = "failed" =>
                    /\ exc.type = "ValueError"
                    /\ stdout = ExpectedOutput(SubSeq(Records, 1, FirstUnnamed - 1)))

\* A record with a block, then a record without a name, then another
\* record: the run has failed with the first block only.
C5_Witness ==
    /\ manifest.shaped
    /\ NRecords >= 2
    /\ Full(Records[1])
    /\ FirstUnnamed = 2
    /\ pc = "failed"
    /\ exc.type = "ValueError"
    /\ stdout = ExpectedOutput(<<Records[1]>>)

\* ------------------------------------------------------------------ C6

\* C6: skip_initial_fields consumes exactly the longest leading run of
\* blank and property lines: while it runs nothing is written or raised
\* and no line beyond the run is consumed, and when it returns the run is
\* consumed and the input is exhausted or its next line, not consumed, is
\* neither blank nor a property line.
C6_SkipsExactlyThePreamble ==
    /\ [](pc = "skip_initial_fields"
            => /\ consumed <= LeadingRun(input)
               /\ stdout = ""
               /\ exc = NoException)
    /\ [][(pc = "skip_initial_fields" /\ pc' # "skip_initial_fields")
            => /\ pc' = "read_lockfile"
               /\ consumed' = LeadingRun(input)
               /\ stdout' = ""
               /\ exc' = NoException
               /\ \/ buffer' = None /\ stdin' = <<>>
                  \/ /\ buffer' = Some(Chomp(input[consumed' + 1]))
                     /\ ~PreambleShaped(buffer'[1])]_vars

\* skip_initial_fields has returned after a preamble of two lines or
\* more, with a line left.
C6_Witness ==
    /\ pc = "read_lockfile"
    /\ consumed = LeadingRun(input)
    /\ consumed >= 2
    /\ has_next(Self)
    /\ ~PreambleShaped(buffer[1])
    /\ stdout = ""

\* ------------------------------------------------------------------ C7

\* C7: line() is the number of lines consumed so far, the number of
\* next() calls that returned, in every state of the reader.
C7_LineCountsConsumed == line(Self) = consumed

\* ------------------------------------------------------------------ C8

\* C8: every failure of the walker is reported with the content of the
\* offending line, the line consumed last, and with that line's position
\* in the input counted from 1.
C8_FailureNamesLineAndPosition ==
    pc = "failed"
        => /\ consumed >= 1
           /\ Contains(exc.message, "'" \o Chomp(input[consumed]) \o "'")
           /\ Contains(exc.message, "line " \o ToString(consumed))

\* ------------------------------------------------------------------ C9

ReaderState == <<stdin, buffer, current_line>>

\* C9: peek() and has_next() leave the stream, the buffer and the line
\* counter as they are; while a line remains peek() returns it, so that
\* peek() returns what the peek() before it returned if no next() came
\* between, has_next() after a peek() is true, and the next() after a
\* peek() returns the text the peek() returned.
C9_PeekDoesNotConsume ==
    [][/\ last'.op \in {"peek", "has_next"} => ReaderState' = ReaderState
       /\ (last'.op = "peek" /\ has_next(Self)) =>
            /\ last'.raised = NoException
            /\ last'.ret = Chomp(input[consumed + 1])
       /\ (last'.op = "peek" /\ peeked # None) => peeked' = peeked
       /\ (last'.op = "has_next" /\ peeked # None) => last'.ret = TRUE
       /\ (last'.op = "next" /\ peeked # None) =>
            /\ last'.raised = NoException
            /\ last'.ret = peeked[1]]_vars

\* A peek() that follows a next() and a has_next() has returned the second line.
C9_Witness ==
    /\ pc = "client"
    /\ last.op = "peek"
    /\ last.raised = NoException
    /\ consumed = 1
    /\ peeked = Some(Chomp(input[2]))
    /\ buffer = peeked

\* ------------------------------------------------------------------ C10

\* C10: under any sequence of calls the lines next() has returned are the
\* first lines of the input, in order and without their terminators;
\* next() can return as long as fewer lines were returned than the input
\* has, and no longer.
C10_NextDeliversInputInOrder ==
    /\ consumed = Len(returned)
    /\ consumed <= Len(input)
    /\ \A k \in 1..consumed : returned[k] = Chomp(input[k])
    /\ has_next(Self) <=> consumed < Len(input)
    /\ (last.op = "next" /\ last.raised # NoException) => consumed = Len(input)

\* All the lines of a three-line input were returned, and a further next()
\* has raised.
C10_Witness ==
    /\ pc = "client"
    /\ Len(input) >= 3
    /\ consumed = Len(input)
    /\ input[1] # input[2]
    /\ last.op = "next"
    /\ last.raised.type = "EOFError"

\* ------------------------------------------------------------------ C11

\* C11: once the reader is exhausted (has_next() is false), every call
\* leaves the stream, the buffer and the line counter as they are and
\* makes no readline() call; has_next() returns false, and next() and
\* peek() raise EOFError.
C11_EndOfInputIsAbsorbing ==
    [][~has_next(Self)
        => /\ ReaderState' = ReaderState
           /\ reads' = reads
           /\ ~has_next(Self)'
           /\ last'.op = "has_next" => last'.ret = FALSE
           /\ last'.op \in {"next", "peek"} => last'.raised.type = "EOFError"]_vars

\* Every line was consumed, and a peek() on the exhausted reader has raised.
C11_Witness ==
    /\ pc = "client"
    /\ Len(input) >= 2
    /\ consumed = Len(input)
    /\ reads = Len(input) + 1
    /\ last.op = "peek"
    /\ last.raised = EOFError("Cannot peek past EOF.")
    /\ ~has_next(Self)

\* ------------------------------------------------------------------ C12

\* The standard output the repository's test expects of main().
expected_output == "* Hello, world!\n* Bumbum\n"

\* C12: on the input of the repository's test, the two lines
\* 'Hello, world!' and 'Bumbum', main() raises nothing, and when it has
\* returned standard output is each line with '* ' before it.
C12_TestScriptPasses ==
    input = Raw(test_input, TRUE)
        => /\ pc # "failed"
           /\ pc = "done" => stdout = expected_output

\* ------------------------------------------------------------------ C13

\* C13: when parse_dependency_details returns, with or without a block,
\* the input is exhausted or the line that waits, not consumed, is exactly
\* the header; on an input built of records the walker is then at the end
\* of a whole record; and the ValueError for a missing header is raised
\* for the first line after the preamble only, never for a line of a
\* record.
C13_RecordIsConsumedWhole ==
    /\ [][(pc \in {"parse_dependency_details", "skip_rest"} /\ pc' = "read_lockfile")
            => \/ buffer' = None /\ stdin' = <<>>
               \/ buffer' = Some(Header)]_vars
    /\ []((manifest.shaped /\ pc = "read_lockfile")
            => \E k \in 0..NRecords :
                    consumed = Len(manifest.preamble)
                                + Len(Flatten(SubSeq(Records, 1, k))))
    /\ []((pc = "failed" /\ Contains(exc.message, "Expected package header"))
            => consumed = LeadingRun(input) + 1)

\* A record with a block and lines after its sdist line was finished, and
\* the header of the next record waits.
C13_Witness ==
    /\ manifest.shaped
    /\ NRecords >= 2
    /\ Full(Records[1])
    /\ Len(Records[1].tail) >= 2
    /\ pc = "read_lockfile"
    /\ consumed = Len(manifest.preamble) + Len(RecordLines(Records[1]))
    /\ buffer = Some(Header)
    /\ stdout = ExpectedOutput(<<Records[1]>>)

\* ------------------------------------------------------------------ C14

\* C14: when the input ends while parse_sdist scans, the run fails there
\* with the ValueError for an input that ends during the sdist scan and
\* writes nothing; on an input built of records with names whose last
\* record has no sdist-with-hash line, the run never returns normally and
\* at the failure standard output is the blocks of the records before the
\* last, with no block for the last.
C14_EofInSdistScanFails ==
    /\ [][(pc = "parse_sdist" /\ ~has_next(Self))
            => /\ pc' = "failed"
               /\ exc' = ValueError("Unexpected EOF while parsing sdist.")
               /\ stdout' = stdout
               /\ consumed' = consumed]_vars
    /\ []((/\ manifest.shaped
           /\ NRecords >= 1
           /\ \A i \in 1..NRecords : Named(Records[i])
           /\ NoSdist(Records[NRecords]))
            => /\ pc # "done"
               /\ pc = "failed" =>
                    /\ exc = ValueError("Unexpected EOF while parsing sdist.")
                    /\ consumed = Len(input)
                    /\ stdout = ExpectedOutput(SubSeq(Records, 1, NRecords - 1))
                    /\ ~Contains(stdout, "resource \""
                            \o Underscored(Records[NRecords].name[1]) \o "\""))

\* The only record has lines after its name and none is an sdist-with-hash
\* line: the run has failed at the end of the input with nothing written.
C14_Witness ==
    /\ manifest.shaped
    /\ NRecords = 1
    /\ NoSdist(Records[1])
    /\ Records[1].mid # <<>>
    /\ pc = "failed"
    /\ exc = ValueError("Unexpected EOF while parsing sdist.")
    /\ consumed = Len(input)
    /\ stdout = ""

\* ------------------------------------------------------------------ C15

\* The urls of the sdist-with-hash lines among ls.
SdistUrls(ls) ==
    {sdist_property_match(ls[i])[1] :
        i \in {j \in 1..Len(ls) : sdist_property_match(ls[j]) # None}}

\* C15: parse_sdist is entered by the step that consumes the name line,
\* and it returns a descriptor by the step that consumes an sdist-with-hash
\* line, with that line's url and hash; a waiting sdist-with-hash line
\* always ends the scan. On an input built of records, the url of an sdist
\* line that stands before the name of its record, or after the record's
\* first sdist line after the name, is never written, and a run that
\* returns has written exactly the blocks made of each record's first
\* sdist line after its name.
C15_SdistScanStartsAfterName ==
    /\ [][(pc # "parse_sdist" /\ pc' = "parse_sdist")
            => /\ pc = "parse_name"
               /\ consumed' = consumed + 1
               /\ name_property_match(returned'[consumed']) # None]_vars
    /\ [][(pc = "parse_sdist" /\ has_next(Self)
                /\ sdist_property_match(buffer[1]) # None)
            => /\ pc' = "parse_dependency_details"
               /\ consumed' = consumed + 1
               /\ sdist' = sdist_property_match(buffer[1])]_vars
    /\ [][(pc = "parse_sdist" /\ pc' = "parse_dependency_details" /\ sdist' # None)
            => /\ consumed' = consumed + 1
               /\ sdist' = sdist_property_match(returned'[consumed'])]_vars
    /\ [](manifest.shaped
            => /\ \A i \in 1..NRecords :
                    \A u \in SdistUrls(Records[i].props) \cup SdistUrls(Records[i].tail) :
                        ~Contains(stdout, "url \"" \o u \o "\"")
               /\ pc = "done" => stdout = ExpectedOutput(Records))

\* A record whose only sdist line stands before its name, then a record
\* with sdist lines before its name, after it and after that one: the run
\* returned with one block, made of the second record's first sdist line
\* after its name.
C15_Witness ==
    /\ manifest.shaped
    /\ NRecords = 2
    /\ NoSdist(Records[1])
    /\ SdistUrls(Records[1].props) # {}
    /\ Full(Records[2])
    /\ SdistUrls(Records[2].props) # {}
    /\ SdistUrls(Records[2].tail) # {}
    /\ pc = "done"
    /\ stdout = ResourceBlock(Underscored(Records[2].name[1]),
                              Records[2].sdist[1], Records[2].sdist[2])

\* ------------------------------------------------------------------ C16

\* The number of [[package]] lines consumed.
HeadersConsumed == Cardinality({i \in 1..Len(returned) : returned[i] = Header})

\* The number of blocks on standard output.
BlocksWritten ==
    Cardinality({i \in 1..Len(stdout) : StartsWithAt(stdout, i, "  resource \"")})

\* C16: the blocks written are never more than the headers consumed; a
\* step writes at most one block, consumes no line when it writes one and
\* writes nothing when it consumes a header; on an input built of records,
\* standard output is always the blocks of the records whose headers were
\* consumed, in order, the last of them perhaps not yet written, and all
\* of them are written when the next header is about to be consumed.
C16_OutputIsStreamedInOrder ==
    /\ [](BlocksWritten <= HeadersConsumed)
    /\ [][/\ BlocksWritten' \in {BlocksWritten, BlocksWritten + 1}
          /\ stdout' # stdout => (consumed' = consumed /\ pc = "parse_dependency_details")
          /\ pc = "parse_dependency" => stdout' = stdout]_vars
    /\ [](manifest.shaped
            => /\ HeadersConsumed <= NRecords
               /\ stdout \in {ExpectedOutput(SubSeq(Records, 1, HeadersConsumed - 1)),
                              ExpectedOutput(SubSeq(Records, 1, HeadersConsumed))}
               /\ pc \in {"parse_name", "parse_sdist", "parse_dependency_details"}
                    => stdout = ExpectedOutput(SubSeq(Records, 1, HeadersConsumed - 1))
               /\ pc \in {"skip_rest", "read_lockfile", "parse_dependency", "done"}
                    => stdout = ExpectedOutput(SubSeq(Records, 1, HeadersConsumed)))

\* Two blocks are written, two headers are consumed and a third record
\* has not been touched.
C16_Witness ==
    /\ manifest.shaped
    /\ NRecords = 3
    /\ pc = "skip_rest"
    /\ HeadersConsumed = 2
    /\ BlocksWritten = 2
    /\ Records[1] # Records[2]
    /\ stdout = ExpectedOutput(SubSeq(Records, 1, 2))
    /\ consumed < Len(input)

\* ------------------------------------------------------------------ C17

\* The place in a pass over one record: later places rank lower.
Rank ==
    CASE pc = "parse_name" -> 6
      [] pc = "parse_sdist" -> 5
      [] pc = "parse_dependency_details" -> 4
      [] pc = "skip_rest" -> 3
      [] pc = "skip_initial_fields" -> 2
      [] pc = "read_lockfile" -> 1
      [] OTHER -> 0

\* Seven for every line not yet consumed, and the rank of the place.
Measure == 7 * (Len(input) - consumed) + Rank

\* C17: every loop iteration and call of the walker makes a measure
\* smaller that is never negative, so that the steps of a run are never
\* more than seven for each line of the input and two; an iteration that
\* stays in its loop consumes a line; and when read_lockfile has returned
\* the whole input is consumed and has_next() is false.
C17_WalkerTerminates ==
    /\ [](Measure >= 0)
    /\ [](steps + Measure <= 7 * Len(input) + 2)
    /\ [][steps' = steps + 1 /\ Measure' < Measure]_vars
    /\ [][pc' = pc => consumed' = consumed + 1]_vars
    /\ [](pc = "done" => (~has_next(Self) /\ consumed = Len(input) /\ stdin = <<>>))

\* read_lockfile has returned after three records.
C17_Witness ==
    /\ pc = "done"
    /\ manifest.shaped
    /\ NRecords = 3
    /\ Len(Records[1].tail) >= 2
    /\ consumed = Len(input)
    /\ ~has_next(Self)

\* ------------------------------------------------------------------ C18

\* C18: no run of the walker raises EOFError: a failure is a ValueError,
\* the reader has a line whenever parse_dependency is about to call
\* next(), and every line the walker consumes is consumed from a reader
\* that has one.
C18_WalkerNeverReadsPastEnd ==
    /\ [](exc.type # "EOFError")
    /\ [](pc = "failed" <=> exc.type = "ValueError")
    /\ [](pc = "parse_dependency" => has_next(Self))
    /\ [][consumed' # consumed => has_next(Self)]_vars

\* The run consumed every line and failed, with a ValueError, at the
\* exhausted reader.
C18_Witness ==
    /\ pc = "failed"
    /\ exc.type = "ValueError"
    /\ ~has_next(Self)
    /\ consumed = Len(input)
    /\ consumed >= 3
    /\ HeadersConsumed >= 2

\* ------------------------------------------------------------------ C19

\* C19: the run without --verbose on the input of a run with --verbose
\* ends as that run ended, by returning or with the same exception, having
\* consumed the same lines in the same order and written the same
\* standard output; the trace goes to standard error only, and only with
\* --verbose; and in both runs every readline() call is the one of the
\* constructor or of a next(), so that no debug call consumes a line.
C19_TracingHasNoEffect ==
    /\ (first_run # None /\ pc \in {"done", "failed"})
        => /\ returned = first_run[1].returned
           /\ stdout = first_run[1].stdout
           /\ pc = first_run[1].pc
           /\ exc = first_run[1].exc
    /\ verbose <=> first_run = None
    /\ ~verbose => stderr = ""
    /\ ~Contains(stdout, Ladybug)
    /\ reads = consumed + 1

\* Both runs wrote a block and then failed; the first left a trace on
\* standard error, the second none.
C19_Witness ==
    /\ first_run # None
    /\ pc = "failed"
    /\ first_run[1].pc = "failed"
    /\ first_run[1].exc = exc
    /\ Contains(first_run[1].stderr, "Skipping line")
    /\ stderr = ""
    /\ stdout # ""
    /\ stdout = first_run[1].stdout
    /\ consumed >= 3

====
